---- MODULE Spec2Model ----
(***************************************************************************)
(* State-machine model of the maritime simulator's core:                   *)
(*   - src/ais_client.py        AISStreamClient (ingest, cache, queue,     *)
(*                              connection life cycle)                     *)
(*   - src/simulation_ammonia.py  AmmoniaVesselSimulator (clock, blackout, *)
(*                              waypoint index, speed and course limits)   *)
(*   - src/simulation_smr.py    SMRVesselSimulator (clock, corridor check, *)
(*                              geofence loop, violation log)              *)
(*   - src/scenario_controller.py  ScenarioController and its              *)
(*                              Gilbert-Elliott channel                    *)
(* The receive task of the AIS client runs in a background thread          *)
(* (AISStreamClient.start); readers and the queue consumer run in other    *)
(* threads, so the handler is split at the points where another thread can *)
(* observe the shared objects.                                             *)
(***************************************************************************)
EXTENDS Integers, Sequences, FiniteSets, TLC

VARIABLES
    \* ---- AISStreamClient configuration (constructor arguments)
    max_queue_size,          \* Queue(maxsize=max_queue_size)
    max_vessels,
    use_ship_type_fallback,
    mmsi_filter,             \* set(mmsi_filter) if mmsi_filter else None
    \* ---- AISStreamClient state
    vessel_cache,            \* Dict[str, VesselState]: mmsi -> record
    message_queue,           \* queue.Queue of VesselState references
    stats,                   \* messages_received, messages_filtered, parse_errors, last_update
    is_connected,
    reconnect_attempts,
    running,
    \* ---- the receive thread (run_async_loop / connect / handlers)
    pc,                      \* position of the receive thread
    cur,                     \* the frame being handled
    new_latitude,            \* locals of _handle_position_report
    new_longitude,
    backoff_time,            \* local of reconnect_with_backoff
    caller,                  \* who called connect(): "loop" (run_async_loop) or "backoff"
    \* ---- other threads
    rpc,                     \* position of a reader thread
    rref,                    \* the VesselState reference the reader holds
    robs,                    \* what the reader has read from it so far
    \* ---- simulators
    amm,                     \* AmmoniaVesselSimulator
    smr,                     \* SMRVesselSimulator
    \* ---- channel model
    ctl,                     \* ScenarioController with its GilbertElliotModel and config
    \* ---- environment and history
    now,                     \* datetime.utcnow()
    hist                     \* history of the connection (for the claims only)

vars == <<max_queue_size, max_vessels, use_ship_type_fallback, mmsi_filter, vessel_cache,
          message_queue, stats, is_connected, reconnect_attempts, running,
          pc, cur, new_latitude, new_longitude, backoff_time, caller,
          rpc, rref, robs, amm, smr, ctl, now, hist>>

confVars == <<max_queue_size, max_vessels, use_ship_type_fallback, mmsi_filter>>
connVars == <<is_connected, reconnect_attempts, running, backoff_time, caller, hist>>
readerVars == <<rpc, rref, robs>>
localVars == <<cur, new_latitude, new_longitude>>
simVars == <<amm, smr>>
ctlVars == <<ctl>>

(***************************************************************************)
(* Bounds of the model                                                     *)
(***************************************************************************)
MaxQueue == 2        \* largest max_queue_size tried
MaxVessels == 2      \* largest max_vessels tried
MaxFrames == 3       \* frames delivered by the transport in one run
MaxTime == 1         \* clock ticks in one run
MaxSimTime == 40     \* simulated seconds either side of the start
MaxWaypoints == 3    \* longest route or centreline tried

(***************************************************************************)
(* Program constants                                                       *)
(***************************************************************************)
AUTONOMOUS_SHIP_MMSI_LIST ==
    {"257646000", "259005610", "258022650", "352986205", "440326000"}

AUTONOMOUS_SHIP_TYPES == 70..89

\* identities carried by the frames of a run
MMSIs == {"440326000", "123456789"}

\* ship-type codes carried by the frames of a run
ShipTypes == {70, 90}

Latitudes == {0, 10}
Longitudes == {0, 20}
Cogs == {90}
Sogs == {12}

(***************************************************************************)
(* Python dictionaries: a message is a function from the keys present.     *)
(* An "option" is <<>> (key absent) or <<v>> (key present with value v).   *)
(***************************************************************************)
Opt(S) == {<<>>} \cup {<<v>> : v \in S}

MkDict(t, la, lo, cg, sg) ==
    LET o == [Type |-> t, Latitude |-> la, Longitude |-> lo, Cog |-> cg, Sog |-> sg]
        K == {k \in {"Type", "Latitude", "Longitude", "Cog", "Sog"} : o[k] # <<>>}
    IN  [k \in K |-> o[k][1]]

\* dict.get(key, default)
Get(d, k, default) == IF k \in DOMAIN d THEN d[k] ELSE default

NoMsg == MkDict(<<>>, <<>>, <<>>, <<>>, <<>>)

PositionReports ==
    {[kind |-> "PositionReport", mmsi |-> m, msg |-> MkDict(t, la, lo, cg, sg)] :
        m \in MMSIs, t \in Opt(ShipTypes), la \in Opt(Latitudes),
        lo \in {<<v>> : v \in Longitudes}, cg \in {<<v>> : v \in Cogs}, sg \in {<<v>> : v \in Sogs}}

StaticData ==
    {[kind |-> "ShipStaticData", mmsi |-> m, msg |-> MkDict(t, <<>>, <<>>, <<>>, <<>>)] :
        m \in MMSIs, t \in Opt(ShipTypes)}

\* frames neither handler acts on:
\*   BadJSON      text that json.loads rejects
\*   NotObject    valid JSON that is not an object (a list, a number, ...)
\*   BadEnvelope  an object with MessageType PositionReport or ShipStaticData
\*                whose "Message" or "MetaData" member is not an object
\*   Unknown      an object with any other MessageType
OtherFrames ==
    {[kind |-> k, mmsi |-> "", msg |-> NoMsg] :
        k \in {"BadJSON", "NotObject", "BadEnvelope", "Unknown"}}

Frames == PositionReports \cup StaticData \cup OtherFrames

NoFrame == [kind |-> "None", mmsi |-> "", msg |-> NoMsg]

(***************************************************************************)
(* VesselState                                                             *)
(***************************************************************************)
\* VesselState(...) as both handlers construct it: position 0.0/0.0, and the
\* timestamp field's default_factory datetime.utcnow.  created_type and the
\* *_rep fields are history: the ship-type code of the creating message and
\* the number of the report that last wrote each field (0: the constructor).
NewVessel(is_autonomous, ship_type) ==
    [vessel_type |-> IF is_autonomous THEN "Autonomous Ship" ELSE "Cargo/Tanker",
     latitude |-> 0, longitude |-> 0, course |-> 0, speed |-> 0,
     timestamp |-> now, has_static |-> FALSE,
     created_type |-> ship_type, lat_rep |-> 0, lon_rep |-> 0]

CachePut(cache, m, v) ==
    [k \in DOMAIN cache \cup {m} |-> IF k = m THEN v ELSE cache[k]]

(***************************************************************************)
(* Admission filter, shared by both handlers                               *)
(***************************************************************************)
\* an allowlist test that also passes every identity already in the cache
IsAutonomousOrCached(mmsi) ==
    mmsi \in AUTONOMOUS_SHIP_MMSI_LIST \/ mmsi \in DOMAIN vessel_cache

IsAutonomous(mmsi) == mmsi \in AUTONOMOUS_SHIP_MMSI_LIST

\* a filter that forgets the use_ship_type_fallback switch
IsCargoTankerTypeNoSwitch(ship_type) == ship_type \in AUTONOMOUS_SHIP_TYPES

IsCargoTankerType(ship_type) ==
    IF use_ship_type_fallback THEN ship_type \in AUTONOMOUS_SHIP_TYPES ELSE FALSE

\* a cache without a capacity limit
AtCapacityNever(cache) == FALSE

\* a capacity test that is off by one
AtCapacityOffByOne(cache) == Cardinality(DOMAIN cache) > max_vessels

AtCapacity(cache) == Cardinality(DOMAIN cache) >= max_vessels

\* a queue built without maxsize is never full
QueueFullUnbounded(q) == FALSE

\* queue.Queue.full() of a queue built with maxsize > 0
QueueFull(q) == Len(q) >= max_queue_size

(***************************************************************************)
(* Simulators: AmmoniaVesselSimulator and SMRVesselSimulator.  Times are   *)
(* seconds relative to the construction of the simulator.  The position    *)
(* that step() propagates is not part of the state: the distance to the    *)
(* target, the only thing step() reads from it to move the index, is an    *)
(* input of each tick.                                                     *)
(***************************************************************************)
\* delta_time_sec arguments tried (None is the absent option)
DeltaTimes == {-10, 0, 10}

\* distance_to_target values tried, in metres
Distances == {400, 900, 6000}

\* random.randint(blackout_min_duration_sec, blackout_max_duration_sec)
BlackoutDurations == {60}

UpdateIntervals == {10}

\* Speeds are in units of 0.01 knot, courses in degrees.
\* AmmoniaVesselConfig defaults: cruise 16.0 kn, min 10.0 kn, and the
\* Waypoint default arrival speed 15.0 kn; bearing is the bearing from the
\* first waypoint to the second
DefaultProfile ==
    [cruise_speed_knots |-> 1600, min_speed_knots |-> 1000,
     arrival_speed_knots |-> 1500, bearing |-> 90]

\* a route whose waypoints are approached at 5.0 kn
HarbourProfile ==
    [cruise_speed_knots |-> 1600, min_speed_knots |-> 1000,
     arrival_speed_knots |-> 500, bearing |-> 90]

\* a configuration whose speeds are all 16.0 kn, on a route due north
FlatProfile ==
    [cruise_speed_knots |-> 1600, min_speed_knots |-> 1600,
     arrival_speed_knots |-> 1600, bearing |-> 0]

\* _initialize_position raises ValueError: get_total_waypoints() == 0
AmmoniaRaises(n) == n = 0

\* _initialize_position raises ValueError: len(centerline_coords) < 2
SMRRaises(n) == n < 2

\* __init__ and _initialize_position of AmmoniaVesselSimulator; constructed
\* is FALSE when the constructor raised and there is no simulator
InitAmmonia(n, interval, cfg) ==
    LET a == [constructed |-> ~AmmoniaRaises(n),
              route_len |-> n, update_interval |-> interval, simulation_time |-> 0,
              timestamp |-> 0, current_waypoint_idx |-> 1, in_blackout |-> FALSE,
              blackout_start_time |-> 0, blackout_duration_sec |-> 0,
              cruise_speed_knots |-> cfg.cruise_speed_knots,
              min_speed_knots |-> cfg.min_speed_knots,
              arrival_speed_knots |-> cfg.arrival_speed_knots,
              course |-> IF n > 1 THEN cfg.bearing ELSE 0,
              speed |-> cfg.cruise_speed_knots]
    IN  a @@ [twin |-> a]

\* __init__ and _initialize_position of SMRVesselSimulator
\* Corridor defaults (width 10 km), SMRVesselConfig default deviation
\* threshold 2 km, no geofence zones.  A zone is [zone_type, max_speed_knots]
\* with max_speed_knots = 0 for None.
OpenSeaCorridor ==
    [width_m |-> 10000, corridor_deviation_threshold_m |-> 2000, zones |-> <<>>]

InitSMR(n, interval, cor) ==
    [constructed |-> ~SMRRaises(n),
     centerline_len |-> n, update_interval |-> interval, simulation_time |-> 0,
     timestamp |-> 0, current_centerline_index |-> 1,
     width_m |-> cor.width_m,
     corridor_deviation_threshold_m |-> cor.corridor_deviation_threshold_m,
     zones |-> cor.zones,
     speed |-> 22,
     violation_log |-> <<>>,
     corridor_deviations |-> 0, geofence_violations |-> 0, speed_violations |-> 0,
     \* history: the cross-track distance and the zones containing the
     \* position after the last tick
     last_xt |-> 0, last_in |-> {}]

\* the simulators as constructed over a two-point route, 10 s interval
InitSim ==
    /\ amm = InitAmmonia(2, 10, FlatProfile)
    /\ smr = InitSMR(2, 10, OpenSeaCorridor)

(***************************************************************************)
(* Initial state: the client as __init__ leaves it                         *)
(***************************************************************************)
NoObs == [latitude |-> 0, lat_rep |-> 0, longitude |-> 0, lon_rep |-> 0]

NoHist == [started |-> FALSE, stopped |-> FALSE, ever_connected |-> FALSE,
           failed_connects |-> 0, prev_failed |-> FALSE, waited |-> 0]

\* mmsi_filter arguments tried: None (<<>>) and a list naming one identity
\* that is not on the built-in list
MmsiFilters == {<<>>, <<{"123456789"}>>}

\* AISStreamClient.__init__ with the configuration cfg
InitClient ==
    /\ max_queue_size \in 1..MaxQueue
    /\ max_vessels \in 0..MaxVessels
    /\ use_ship_type_fallback \in BOOLEAN
    /\ mmsi_filter \in MmsiFilters
    /\ vessel_cache = [m \in {} |-> 0]
    /\ message_queue = <<>>
    /\ stats = [messages_received |-> 0, messages_filtered |-> 0,
                parse_errors |-> 0, last_update |-> -1]
    /\ is_connected = FALSE
    /\ reconnect_attempts = 0
    /\ running = FALSE
    /\ pc = "idle"
    /\ cur = NoFrame
    /\ new_latitude = 0
    /\ new_longitude = 0
    /\ backoff_time = 0
    /\ caller = "loop"
    /\ rpc = "idle"
    /\ rref = ""
    /\ robs = NoObs
    /\ now = 0
    /\ hist = NoHist

(***************************************************************************)
(* The receive loop: one frame                                             *)
(***************************************************************************)
Bump(counter) == [stats EXCEPT ![counter] = @ + 1]

Received == Bump("messages_received")

\* _process_message on a frame that json.loads rejects (JSONDecodeError)
ProcessBadJSON(f) ==
    /\ f.kind = "BadJSON"
    /\ stats' = [Received EXCEPT !.parse_errors = @ + 1]
    /\ UNCHANGED <<vessel_cache, pc, localVars>>

\* _process_message on valid JSON that is not an object: data.get raises
\* AttributeError, which _process_message does not catch; the receive loop
\* of connect() catches it and counts a parse error (lines 207-211)
ProcessNotObject(f) ==
    /\ f.kind = "NotObject"
    /\ stats' = [Received EXCEPT !.parse_errors = @ + 1]
    /\ UNCHANGED <<vessel_cache, pc, localVars>>

\* a handler on an envelope whose "Message" or "MetaData" is not an object:
\* .get raises AttributeError inside the handler's try, and the handler's
\* "except Exception" only logs it (lines 327-328, 410-411)
ProcessBadEnvelope(f) ==
    /\ f.kind = "BadEnvelope"
    /\ stats' = Received
    /\ UNCHANGED <<vessel_cache, pc, localVars>>

\* _process_message on a frame whose MessageType is neither handled one
ProcessUnknown(f) ==
    /\ f.kind = "Unknown"
    /\ stats' = Received
    /\ UNCHANGED <<vessel_cache, pc, localVars>>

\* _handle_position_report up to the null-island check (lines 246-296)
HandlePositionReport(f) ==
    /\ f.kind = "PositionReport"
    /\ LET mmsi == f.mmsi
           ship_type == Get(f.msg, "Type", 0)
           is_autonomous == IsAutonomous(mmsi)
           is_cargo_tanker_type == IsCargoTankerType(ship_type)
       IN
       IF ~is_autonomous /\ ~is_cargo_tanker_type
       THEN /\ stats' = [Received EXCEPT !.messages_filtered = @ + 1]
            /\ UNCHANGED <<vessel_cache, pc, localVars>>
       ELSE IF ~is_autonomous /\ AtCapacity(vessel_cache)
       THEN /\ stats' = [Received EXCEPT !.messages_filtered = @ + 1]
            /\ UNCHANGED <<vessel_cache, pc, localVars>>
       ELSE LET cache1 == IF mmsi \in DOMAIN vessel_cache
                          THEN vessel_cache
                          ELSE CachePut(vessel_cache, mmsi,
                                        NewVessel(is_autonomous, ship_type))
                vessel == cache1[mmsi]
                lat == Get(f.msg, "Latitude", vessel.latitude)
                lon == Get(f.msg, "Longitude", vessel.longitude)
            IN  /\ vessel_cache' = cache1
                /\ IF lat = 0 /\ lon = 0
                   THEN /\ stats' = [Received EXCEPT !.messages_filtered = @ + 1]
                        /\ UNCHANGED <<pc, localVars>>
                   ELSE /\ stats' = Received
                        /\ pc' = "upd_lat"
                        /\ cur' = f
                        /\ new_latitude' = lat
                        /\ new_longitude' = lon

\* _handle_static_data (lines 333-408)
HandleStaticData(f) ==
    /\ f.kind = "ShipStaticData"
    /\ stats' = Received
    /\ UNCHANGED <<pc, localVars>>
    /\ LET mmsi == f.mmsi
           ship_type == Get(f.msg, "Type", 0)
           is_autonomous == IsAutonomous(mmsi)
           is_cargo_tanker_type == IsCargoTankerType(ship_type)
       IN
       IF ~is_autonomous /\ ~is_cargo_tanker_type
       THEN UNCHANGED vessel_cache
       ELSE IF ~is_autonomous /\ AtCapacity(vessel_cache)
       THEN UNCHANGED vessel_cache
       ELSE LET vessel == IF mmsi \in DOMAIN vessel_cache
                          THEN vessel_cache[mmsi]
                          ELSE NewVessel(is_autonomous, ship_type)
            IN  vessel_cache' =
                    CachePut(vessel_cache, mmsi, [vessel EXCEPT !.has_static = TRUE])

\* connect(): the body of "async for message in websocket" for one frame
Receive(f) ==
    /\ pc = "recv"
    /\ running
    /\ stats.messages_received < MaxFrames
    /\ \/ ProcessBadJSON(f)
       \/ ProcessNotObject(f)
       \/ ProcessBadEnvelope(f)
       \/ ProcessUnknown(f)
       \/ HandlePositionReport(f)
       \/ HandleStaticData(f)
    /\ UNCHANGED <<confVars, ctlVars, simVars, message_queue, connVars, readerVars, now>>

(***************************************************************************)
(* _handle_position_report, lines 298-319: the writes to the shared        *)
(* VesselState object, one attribute store at a time, then the queue       *)
(***************************************************************************)
CurRep == stats.messages_received

SetField(field, value, repfield) ==
    vessel_cache' = [vessel_cache EXCEPT ![cur.mmsi] =
                        [@ EXCEPT ![field] = value, ![repfield] = CurRep]]

WriteLatitude ==
    /\ pc = "upd_lat"
    /\ SetField("latitude", new_latitude, "lat_rep")
    /\ pc' = "upd_lon"
    /\ UNCHANGED <<confVars, ctlVars, simVars, message_queue, stats, connVars, localVars, readerVars, now>>

WriteLongitude ==
    /\ pc = "upd_lon"
    /\ SetField("longitude", new_longitude, "lon_rep")
    /\ pc' = "upd_rest"
    /\ UNCHANGED <<confVars, ctlVars, simVars, message_queue, stats, connVars, localVars, readerVars, now>>

\* course, speed, heading, nav_status, position_accuracy, timestamp
WriteRest ==
    /\ pc = "upd_rest"
    /\ vessel_cache' = [vessel_cache EXCEPT ![cur.mmsi] =
            [@ EXCEPT !.course = Get(cur.msg, "Cog", @),
                      !.speed = Get(cur.msg, "Sog", @),
                      !.timestamp = now]]
    /\ pc' = "enq_check"
    /\ UNCHANGED <<confVars, ctlVars, simVars, message_queue, stats, connVars, localVars, readerVars, now>>

\* the queue entry is the VesselState object itself: a reference into the cache
QueueEntry == [ref |-> cur.mmsi, rep |-> CurRep]

\* if not self.message_queue.full()
EnqueueCheck ==
    /\ pc = "enq_check"
    /\ pc' = IF QueueFull(message_queue) THEN "enq_get" ELSE "enq_put"
    /\ UNCHANGED <<confVars, ctlVars, simVars, vessel_cache, message_queue, stats, connVars,
                   localVars, readerVars, now>>

\* self.message_queue.get(): blocks while the queue is empty
EnqueueDropHead ==
    /\ pc = "enq_get"
    /\ message_queue # <<>>
    /\ message_queue' = Tail(message_queue)
    /\ pc' = "enq_put"
    /\ UNCHANGED <<confVars, ctlVars, simVars, vessel_cache, stats, connVars, localVars, readerVars, now>>

\* self.message_queue.put(vessel): blocks while the queue is full
EnqueuePut ==
    /\ pc = "enq_put"
    /\ ~QueueFull(message_queue)
    /\ message_queue' = Append(message_queue, QueueEntry)
    /\ pc' = "callback"
    /\ UNCHANGED <<confVars, ctlVars, simVars, vessel_cache, stats, connVars, localVars, readerVars, now>>

\* message_callback(vessel); stats['last_update'] = utcnow(); return
CallbackAndReturn ==
    /\ pc = "callback"
    /\ stats' = [stats EXCEPT !.last_update = now]
    /\ pc' = "recv"
    /\ cur' = NoFrame
    /\ new_latitude' = 0
    /\ new_longitude' = 0
    /\ UNCHANGED <<confVars, ctlVars, simVars, vessel_cache, message_queue, connVars, readerVars, now>>

(***************************************************************************)
(* Other threads                                                           *)
(***************************************************************************)
\* a consumer of the queue: message_queue.get() in another thread
Consume ==
    /\ message_queue # <<>>
    /\ message_queue' = Tail(message_queue)
    /\ UNCHANGED <<confVars, ctlVars, simVars, vessel_cache, stats, connVars, pc, localVars, readerVars, now>>

\* get_vessel_by_mmsi(m), or get_latest_vessels()[m]: both hand out the
\* cached VesselState object itself (dict.copy() is a shallow copy)
GetVessel(m) ==
    /\ rpc = "idle"
    /\ m \in DOMAIN vessel_cache
    /\ rref' = m
    /\ robs' = NoObs
    /\ rpc' = "read_lat"
    /\ UNCHANGED <<confVars, ctlVars, simVars, vessel_cache, message_queue, stats, connVars, pc, localVars, now>>

ReadLatitude ==
    /\ rpc = "read_lat"
    /\ robs' = [robs EXCEPT !.latitude = vessel_cache[rref].latitude,
                            !.lat_rep = vessel_cache[rref].lat_rep]
    /\ rpc' = "read_lon"
    /\ UNCHANGED <<confVars, ctlVars, simVars, vessel_cache, message_queue, stats, connVars, pc, localVars, rref, now>>

ReadLongitude ==
    /\ rpc = "read_lon"
    /\ robs' = [robs EXCEPT !.longitude = vessel_cache[rref].longitude,
                            !.lon_rep = vessel_cache[rref].lon_rep]
    /\ rpc' = "read_done"
    /\ UNCHANGED <<confVars, ctlVars, simVars, vessel_cache, message_queue, stats, connVars, pc, localVars, rref, now>>

ReaderDone ==
    /\ rpc = "read_done"
    /\ rpc' = "idle"
    /\ rref' = ""
    /\ robs' = NoObs
    /\ UNCHANGED <<confVars, ctlVars, simVars, vessel_cache, message_queue, stats, connVars, pc, localVars, now>>

\* the wall clock
Tick ==
    /\ now < MaxTime
    /\ now' = now + 1
    /\ UNCHANGED <<confVars, ctlVars, simVars, vessel_cache, message_queue, stats, connVars, pc,
                   localVars, readerVars>>

(***************************************************************************)
(* Connection life cycle: start, stop, run_async_loop, connect,            *)
(* reconnect_with_backoff                                                  *)
(***************************************************************************)
max_reconnect_attempts == 10

ingestVars == <<vessel_cache, message_queue, stats, localVars>>

\* 2 ** n
RECURSIVE Pow2(_)
Pow2(n) == IF n = 0 THEN 1 ELSE 2 * Pow2(n - 1)

Min(a, b) == IF a < b THEN a ELSE b

\* backoff_time = min(2 ** self.reconnect_attempts, 60)
BackoffTime(n) == Min(Pow2(n), 60)

\* a budget test that is off by one
BudgetLeftInclusive == reconnect_attempts <= max_reconnect_attempts

\* while self.running and self.reconnect_attempts < self.max_reconnect_attempts
BudgetLeft == reconnect_attempts < max_reconnect_attempts

\* where connect() returns to
ReturnPc == IF caller = "loop" THEN "after_connect" ELSE "rb_after"

\* start(): running = True, and the thread enters run_async_loop
Start ==
    /\ pc = "idle"
    /\ ~hist.started
    /\ running' = TRUE
    /\ pc' = "loop"
    /\ hist' = [hist EXCEPT !.started = TRUE]
    /\ UNCHANGED <<confVars, ctlVars, simVars, ingestVars, is_connected, reconnect_attempts,
                   backoff_time, caller, readerVars, now>>

\* stop(), called from another thread at any time after start()
Stop ==
    /\ hist.started
    /\ ~hist.stopped
    /\ running' = FALSE
    /\ is_connected' = FALSE
    /\ hist' = [hist EXCEPT !.stopped = TRUE]
    /\ UNCHANGED <<confVars, ctlVars, simVars, ingestVars, reconnect_attempts, backoff_time, caller,
                   pc, readerVars, now>>

\* run_async_loop: while self.running: connect()   (else loop.close())
LoopTop ==
    /\ pc = "loop"
    /\ IF running
       THEN /\ pc' = "connecting"
            /\ caller' = "loop"
            /\ hist' = [hist EXCEPT !.waited = 0]
       ELSE /\ pc' = "done"
            /\ UNCHANGED <<caller, hist>>
    /\ UNCHANGED <<confVars, ctlVars, simVars, ingestVars, is_connected, reconnect_attempts, running,
                   backoff_time, readerVars, now>>

\* connect(): websockets.connect(uri) raises
ConnectFail ==
    /\ pc = "connecting"
    /\ is_connected' = FALSE
    /\ pc' = ReturnPc
    /\ hist' = [hist EXCEPT !.failed_connects = @ + 1, !.prev_failed = TRUE]
    /\ UNCHANGED <<confVars, ctlVars, simVars, ingestVars, reconnect_attempts, running, backoff_time,
                   caller, readerVars, now>>

\* connect(): the websocket is open (lines 189-192)
ConnectOK ==
    /\ pc = "connecting"
    /\ is_connected' = TRUE
    /\ reconnect_attempts' = 0
    /\ pc' = "subscribing"
    /\ hist' = [hist EXCEPT !.ever_connected = TRUE, !.failed_connects = 0]
    /\ UNCHANGED <<confVars, ctlVars, simVars, ingestVars, running, backoff_time, caller, readerVars, now>>

\* await websocket.send(subscribe_message) succeeds
SubscribeOK ==
    /\ pc = "subscribing"
    /\ pc' = "recv"
    /\ hist' = [hist EXCEPT !.prev_failed = FALSE]
    /\ UNCHANGED <<confVars, ctlVars, simVars, ingestVars, is_connected, reconnect_attempts, running,
                   backoff_time, caller, readerVars, now>>

\* await websocket.send(subscribe_message) raises
SubscribeFail ==
    /\ pc = "subscribing"
    /\ is_connected' = FALSE
    /\ pc' = ReturnPc
    /\ hist' = [hist EXCEPT !.prev_failed = TRUE]
    /\ UNCHANGED <<confVars, ctlVars, simVars, ingestVars, reconnect_attempts, running, backoff_time,
                   caller, readerVars, now>>

\* a frame arrives while running is False: break, and connect() returns
LoopBreak ==
    /\ pc = "recv"
    /\ ~running
    /\ pc' = ReturnPc
    /\ hist' = [hist EXCEPT !.prev_failed = TRUE]
    /\ UNCHANGED <<confVars, ctlVars, simVars, ingestVars, is_connected, reconnect_attempts, running,
                   backoff_time, caller, readerVars, now>>

\* the read raises (ConnectionClosed, or any other exception)
ConnectionLost ==
    /\ pc = "recv"
    /\ is_connected' = FALSE
    /\ pc' = ReturnPc
    /\ hist' = [hist EXCEPT !.prev_failed = TRUE]
    /\ UNCHANGED <<confVars, ctlVars, simVars, ingestVars, reconnect_attempts, running, backoff_time,
                   caller, readerVars, now>>

\* the "async for" ends without raising (the peer closed the connection
\* normally): connect() returns and is_connected keeps its value
StreamEnds ==
    /\ pc = "recv"
    /\ pc' = ReturnPc
    /\ hist' = [hist EXCEPT !.prev_failed = TRUE]
    /\ UNCHANGED <<confVars, ctlVars, simVars, ingestVars, is_connected, reconnect_attempts, running,
                   backoff_time, caller, readerVars, now>>

\* run_async_loop: if self.running and not self.is_connected: reconnect_with_backoff()
AfterConnect ==
    /\ pc = "after_connect"
    /\ pc' = IF running /\ ~is_connected THEN "rb_top" ELSE "loop"
    /\ UNCHANGED <<confVars, ctlVars, simVars, ingestVars, connVars, readerVars, now>>

\* reconnect_with_backoff: the loop condition, the increment and the backoff
\* computation; when the loop ends, running = False and return
BackoffTop ==
    /\ pc = "rb_top"
    /\ IF running /\ BudgetLeft
       THEN /\ reconnect_attempts' = reconnect_attempts + 1
            /\ backoff_time' = BackoffTime(reconnect_attempts + 1)
            /\ pc' = "sleeping"
            /\ UNCHANGED running
       ELSE /\ running' = FALSE
            /\ pc' = "loop"
            /\ UNCHANGED <<reconnect_attempts, backoff_time>>
    /\ UNCHANGED <<confVars, ctlVars, simVars, ingestVars, is_connected, caller, hist, readerVars, now>>

\* await asyncio.sleep(backoff_time) is over: await self.connect()
SleepDone ==
    /\ pc = "sleeping"
    /\ pc' = "connecting"
    /\ caller' = "backoff"
    /\ hist' = [hist EXCEPT !.waited = backoff_time]
    /\ UNCHANGED <<confVars, ctlVars, simVars, ingestVars, is_connected, reconnect_attempts, running,
                   backoff_time, readerVars, now>>

\* reconnect_with_backoff: if self.is_connected: return
BackoffAfterConnect ==
    /\ pc = "rb_after"
    /\ pc' = IF is_connected THEN "loop" ELSE "rb_top"
    /\ UNCHANGED <<confVars, ctlVars, simVars, ingestVars, connVars, readerVars, now>>

(***************************************************************************)
(* Simulator ticks                                                         *)
(***************************************************************************)
\* dt = delta_time_sec or self.update_interval
EffectiveDt(delta_time_sec, update_interval) ==
    IF delta_time_sec = <<>> \/ delta_time_sec[1] = 0
    THEN update_interval
    ELSE delta_time_sec[1]

\* AmmoniaVesselSimulator.step: clock, blackout, waypoint index, timestamp
\* np.sign
Sign(x) == IF x > 0 THEN 1 ELSE IF x < 0 THEN -1 ELSE 0

Abs(x) == IF x < 0 THEN -x ELSE x

\* (target_course - course + 180) % 360 - 180: the signed shortest rotation
CourseDiff(target_course, course) == ((target_course - course + 180) % 360) - 180

\* an acceleration limit ten times too large
MaxSpeedChangeTenfold(dt) == 50 * dt

\* max_acceleration_knots_per_sec * dt, 0.05 kn/s
MaxSpeedChange(dt) == 5 * dt

\* max_turn_rate_deg_per_sec * dt, 2 deg/s
MaxCourseChange(dt) == 2 * dt

\* a speed profile that holds the minimum speed while a blackout is active
TargetSpeedBlackoutSlows(a, distance_to_target) ==
    IF a.in_blackout
    THEN a.min_speed_knots
    ELSE IF distance_to_target < 5000
    THEN a.min_speed_knots +
         ((a.arrival_speed_knots - a.min_speed_knots) * distance_to_target) \div 5000
    ELSE a.cruise_speed_knots

\* the speed profile: linear deceleration inside the last 5 km
TargetSpeed(a, distance_to_target) ==
    IF distance_to_target < 5000
    THEN a.min_speed_knots +
         ((a.arrival_speed_knots - a.min_speed_knots) * distance_to_target) \div 5000
    ELSE a.cruise_speed_knots

\* a target selection that does not wrap
TargetIndexNoWrap(index, route_len) == index

\* the index that selects the target of a tick: an index that has run off
\* the end of the route is reset to 0 first
TargetIndex(index, route_len) == IF index >= route_len THEN 0 ELSE index

\* the body of step() on the simulator a: the state it leaves
AmmoniaTick(a, delta_time_sec, start_blackout, duration, distance_to_target, target_course) ==
    LET dt == EffectiveDt(delta_time_sec, a.update_interval)
        target_speed == TargetSpeed(a, distance_to_target)
        speed_diff == target_speed - a.speed
        speed == IF Abs(speed_diff) > MaxSpeedChange(dt)
                 THEN a.speed + Sign(speed_diff) * MaxSpeedChange(dt)
                 ELSE target_speed
        course_diff == CourseDiff(target_course, a.course)
        course == IF Abs(course_diff) > MaxCourseChange(dt)
                  THEN a.course + Sign(course_diff) * MaxCourseChange(dt)
                  ELSE target_course
        t == a.simulation_time + dt
        elapsed == t - a.blackout_start_time
        ended == a.in_blackout /\ elapsed >= a.blackout_duration_sec
        begun == ~a.in_blackout /\ start_blackout
        idx == TargetIndex(a.current_waypoint_idx, a.route_len)
    IN  [a EXCEPT
            !.simulation_time = t,
            !.in_blackout = IF ended THEN FALSE ELSE IF begun THEN TRUE ELSE @,
            !.blackout_start_time = IF ended THEN 0 ELSE IF begun THEN t ELSE @,
            !.blackout_duration_sec = IF begun THEN duration ELSE @,
            !.speed = speed,
            !.course = course % 360,
            !.timestamp = t,
            !.current_waypoint_idx =
                IF distance_to_target < 500 THEN idx + 1 ELSE idx]

\* step() with the draws of its blackout section as inputs.  The twin is
\* history: the same simulator given the same arguments, whose draws never
\* start a blackout.
AmmoniaStep(delta_time_sec, start_blackout, duration, distance_to_target, target_course) ==
    LET t == amm.simulation_time + EffectiveDt(delta_time_sec, amm.update_interval)
    IN  /\ amm.constructed
        /\ t \in -MaxSimTime..MaxSimTime
        /\ amm' = [AmmoniaTick(amm, delta_time_sec, start_blackout, duration,
                               distance_to_target, target_course)
                     EXCEPT !.twin = AmmoniaTick(amm.twin, delta_time_sec, FALSE, duration,
                                                 distance_to_target, target_course)]
        /\ UNCHANGED <<confVars, ctlVars, ingestVars, pc, connVars, readerVars, smr, now>>

\* _log_violation: the ViolationEvent appended to violation_log
ViolationEvent(event_type, severity, t, zone) ==
    [event_type |-> event_type, severity |-> severity, timestamp |-> t, zone |-> zone]

\* Corridor.is_within_corridor: distance <= width_m / 2
IsWithinCorridor(s, distance) == 2 * distance <= s.width_m

\* a zone test that also takes RESTRICTED zones for PROHIBITED ones
IsProhibitedOrRestricted(zone) == zone.zone_type \in {"PROHIBITED", "RESTRICTED"}

\* zone.zone_type == 'PROHIBITED'
IsProhibited(zone) == zone.zone_type = "PROHIBITED"

\* step, section 6: the events of the corridor check for cross-track
\* distance xt of the new position
CorridorEvents(s, t, xt) ==
    IF ~IsWithinCorridor(s, xt) /\ xt > s.corridor_deviation_threshold_m
    THEN <<ViolationEvent("CORRIDOR_DEVIATION", "CRITICAL", t, 0)>>
    ELSE <<>>

\* step, section 7: the events of the geofence loop from zone i on, for
\* the set inside of zones that contain the new position
RECURSIVE ZoneEvents(_, _, _, _, _)
ZoneEvents(s, t, speed, inside, i) ==
    IF i > Len(s.zones)
    THEN <<>>
    ELSE LET zone == s.zones[i]
             here == IF IsProhibited(zone) /\ i \in inside
                     THEN <<ViolationEvent("GEOFENCE_VIOLATION", "CRITICAL", t, i)>>
                     ELSE IF zone.zone_type = "RESTRICTED" /\ i \in inside
                             /\ zone.max_speed_knots # 0 /\ speed > zone.max_speed_knots
                     THEN <<ViolationEvent("SPEED_VIOLATION", "WARNING", t, i)>>
                     ELSE <<>>
         IN  here \o ZoneEvents(s, t, speed, inside, i + 1)

\* the number of events of one type in a sequence of events
CountEvents(events, event_type) ==
    Cardinality({i \in 1..Len(events) : events[i].event_type = event_type})

\* SMRVesselSimulator.step: clock, centreline index, speed, timestamp,
\* corridor check, geofence loop.  cross_track is the distance of the new
\* position from the centreline, inside the zones that contain it.
SMRStep(delta_time_sec, distance_to_target, cross_track, inside) ==
    LET dt == EffectiveDt(delta_time_sec, smr.update_interval)
        t == smr.simulation_time + dt
        idx == TargetIndex(smr.current_centerline_index, smr.centerline_len)
        \* min(config.cruise_speed_knots, corridor.max_speed_knots)
        speed == Min(22, 20)
        corridor == CorridorEvents(smr, t, cross_track)
        geofence == ZoneEvents(smr, t, speed, inside, 1)
    IN  /\ smr.constructed
        /\ inside \subseteq 1..Len(smr.zones)
        /\ t \in -MaxSimTime..MaxSimTime
        /\ smr' = [smr EXCEPT
                !.simulation_time = t,
                !.timestamp = t,
                !.speed = speed,
                !.violation_log = @ \o corridor \o geofence,
                !.corridor_deviations = @ + Len(corridor),
                !.geofence_violations = @ + CountEvents(geofence, "GEOFENCE_VIOLATION"),
                !.speed_violations = @ + CountEvents(geofence, "SPEED_VIOLATION"),
                !.last_xt = cross_track,
                !.last_in = inside,
                !.current_centerline_index =
                    IF distance_to_target < 1000 THEN idx + 1 ELSE idx]
        /\ UNCHANGED <<confVars, ctlVars, ingestVars, pc, connVars, readerVars, amm, now>>

(***************************************************************************)
(* ScenarioController and its Gilbert-Elliott channel.  Probabilities are  *)
(* kept in units of 1/1000 (base) and 1/10000 (scaled), degradation_level  *)
(* in tenths, times in seconds.  The latency that a successful call draws  *)
(* and adds to total_delay_ms is a real number and is not part of the      *)
(* state.                                                                  *)
(***************************************************************************)
MaxPackets == 3      \* process_transmission calls in one run

\* packet_loss_good_state / packet_loss_bad_state of the three predefined
\* profiles (AIS terrestrial, VSAT, LEO) and of one custom profile
LossProfiles ==
    {[p_loss_good |-> 10, p_loss_bad |-> 300],
     [p_loss_good |-> 5, p_loss_bad |-> 200],
     [p_loss_good |-> 2, p_loss_bad |-> 150],
     [p_loss_good |-> 200, p_loss_bad |-> 500]}

\* degradation_level 0.0, 0.5, 1.0
Degradations == {0, 5, 10}

\* blackout_duration_sec values tried
CtlBlackoutDurations == {0, 20}

\* current_time arguments tried
CtlTimes == {0, 10, 20, 30}

\* ScenarioController.__init__
InitController(profile, d, force, duration) ==
    [p_loss_good |-> profile.p_loss_good, p_loss_bad |-> profile.p_loss_bad,
     current_state |-> "GOOD",
     degradation_level |-> d, force_blackout |-> force,
     blackout_duration_sec |-> duration,
     total_packets |-> 0, lost_packets |-> 0, blackout_events |-> 0,
     total_blackout_duration_sec |-> 0,
     in_blackout |-> FALSE, blackout_start_time |-> <<>>, blackout_end_time |-> <<>>,
     simulation_time |-> 0,
     \* history: the last call's reason, the loss probability its GE step
     \* used, the number of GE steps taken, the number of calls made
     reason |-> "NONE", used_p_loss |-> 0, ge_steps |-> 0, calls |-> 0]

\* the controller of the normal-conditions scenario
InitCtl == ctl = InitController([p_loss_good |-> 10, p_loss_bad |-> 300], 0, FALSE, 20)

\* a reset_statistics that forgets lost_packets
ResetStatsKeepLost(c) ==
    [c EXCEPT !.total_packets = 0, !.blackout_events = 0,
              !.total_blackout_duration_sec = 0]

\* reset_statistics: a fresh stats dictionary
ResetStats(c) ==
    [c EXCEPT !.total_packets = 0, !.lost_packets = 0, !.blackout_events = 0,
              !.total_blackout_duration_sec = 0]

\* a forced blackout that is started once only
ForcedOpenOnce(c) == c.force_blackout /\ ~c.in_blackout /\ c.blackout_events = 0

\* process_transmission, "if self.config.force_blackout: if not self.in_blackout:"
ForcedOpen(c) == c.force_blackout /\ ~c.in_blackout

\* a window that is taken to be over 10 s before its end
WindowOpenEndsEarly(c) ==
    c.in_blackout /\ ~(c.simulation_time >= c.blackout_end_time[1] - 10)

\* process_transmission, "if self.in_blackout:" with the else of
\* "if self.simulation_time >= self.blackout_end_time"
WindowOpen(c) ==
    c.in_blackout /\ ~(c.simulation_time >= c.blackout_end_time[1])

\* a scaling without the cap
ScaledLossUncapped(p, d, cap) == p * (10 + d * 2)

\* min(original_p_loss * degradation_factor, cap), with
\* degradation_factor = 1.0 + degradation_level * 2.0
ScaledLoss(p, d, cap) == Min(p * (10 + d * 2), cap)

\* calculate_reliability_index: the quotient as <<numerator, denominator>>
calculate_reliability_index(c) ==
    IF c.total_packets = 0
    THEN <<100, 1>>
    ELSE <<(c.total_packets - c.lost_packets) * 100, c.total_packets>>

\* process_transmission(current_time); the three random draws of
\* GilbertElliotModel.step are flip (the transition) and lose (the loss)
ProcessTransmission(current_time, flip, lose) ==
    /\ ctl.calls < MaxPackets
    /\ LET c0 == [ctl EXCEPT
                    !.simulation_time = IF current_time = <<>> THEN @ ELSE current_time[1],
                    !.total_packets = @ + 1,
                    !.calls = @ + 1]
           \* if self.config.force_blackout: if not self.in_blackout: ...
           c1 == IF ForcedOpen(c0)
                 THEN [c0 EXCEPT
                         !.in_blackout = TRUE,
                         !.blackout_start_time = <<c0.simulation_time>>,
                         !.blackout_end_time =
                             <<c0.simulation_time + c0.blackout_duration_sec>>,
                         !.blackout_events = @ + 1]
                 ELSE c0
           \* if self.in_blackout: if simulation_time >= blackout_end_time: ...
           c2 == IF c1.in_blackout /\ ~WindowOpen(c1)
                 THEN [c1 EXCEPT
                         !.total_blackout_duration_sec =
                             @ + (c1.blackout_end_time[1] - c1.blackout_start_time[1]),
                         !.in_blackout = FALSE,
                         !.blackout_start_time = <<>>,
                         !.blackout_end_time = <<>>]
                 ELSE c1
           \* GilbertElliotModel.step with the scaled probabilities
           state == IF flip
                    THEN (IF c2.current_state = "GOOD" THEN "BAD" ELSE "GOOD")
                    ELSE c2.current_state
           used == IF state = "GOOD"
                   THEN ScaledLoss(c2.p_loss_good, c2.degradation_level, 5000)
                   ELSE ScaledLoss(c2.p_loss_bad, c2.degradation_level, 9000)
       IN  IF WindowOpen(c1)
           THEN ctl' = [c1 EXCEPT !.lost_packets = @ + 1, !.reason = "BLACKOUT"]
           ELSE ctl' = [c2 EXCEPT
                          !.current_state = state,
                          !.used_p_loss = used,
                          !.ge_steps = @ + 1,
                          !.lost_packets = IF lose THEN @ + 1 ELSE @,
                          !.reason = IF lose THEN "PACKET_LOSS" ELSE "SUCCESS"]
    /\ UNCHANGED <<confVars, simVars, ingestVars, pc, connVars, readerVars, now>>

\* reset_statistics
ResetStatistics ==
    /\ ctl' = ResetStats(ctl)
    /\ UNCHANGED <<confVars, simVars, ingestVars, pc, connVars, readerVars, now>>

\* the dashboard's slider: controller.config.degradation_level = degradation
SetDegradation(d) ==
    /\ ctl' = [ctl EXCEPT !.degradation_level = d]
    /\ UNCHANGED <<confVars, simVars, ingestVars, pc, connVars, readerVars, now>>

(***************************************************************************)
(* Specifications                                                          *)
(***************************************************************************)
\* the connection is up and streaming
InitStreaming ==
    /\ max_queue_size \in 1..MaxQueue
    /\ max_vessels \in 0..MaxVessels
    /\ use_ship_type_fallback \in BOOLEAN
    /\ mmsi_filter \in MmsiFilters
    /\ vessel_cache = [m \in {} |-> 0]
    /\ message_queue = <<>>
    /\ stats = [messages_received |-> 0, messages_filtered |-> 0,
                parse_errors |-> 0, last_update |-> -1]
    /\ is_connected = TRUE
    /\ reconnect_attempts = 0
    /\ running = TRUE
    /\ pc = "recv"
    /\ cur = NoFrame
    /\ new_latitude = 0
    /\ new_longitude = 0
    /\ backoff_time = 0
    /\ caller = "loop"
    /\ rpc = "idle"
    /\ rref = ""
    /\ robs = NoObs
    /\ now = 0
    /\ hist = [NoHist EXCEPT !.started = TRUE, !.ever_connected = TRUE]

HandlerStep ==
    \/ WriteLatitude
    \/ WriteLongitude
    \/ WriteRest
    \/ EnqueueCheck
    \/ EnqueueDropHead
    \/ EnqueuePut
    \/ CallbackAndReturn

\* Spec: the receive task alone, fed with every kind of frame
Next ==
    \/ \E f \in Frames : Receive(f)
    \/ HandlerStep

Init ==
    /\ InitStreaming
    /\ InitSim
    /\ InitCtl

Spec == Init /\ [][Next]_vars

\* SpecThreads: the receive task with a queue consumer, a reader and the clock,
\* fed with position reports of one allowlisted identity
ThreadFrames ==
    {f \in PositionReports :
        /\ f.mmsi = "440326000"
        /\ DOMAIN f.msg = {"Latitude", "Longitude", "Cog", "Sog"}}

NextThreads ==
    \/ \E f \in ThreadFrames : Receive(f)
    \/ HandlerStep
    \/ Consume
    \/ \E m \in MMSIs : GetVessel(m)
    \/ ReadLatitude
    \/ ReadLongitude
    \/ ReaderDone
    \/ Tick

InitThreads ==
    /\ InitStreaming
    /\ InitSim
    /\ InitCtl
    /\ max_vessels = MaxVessels
    /\ use_ship_type_fallback = FALSE
    /\ mmsi_filter = <<>>

SpecThreads == InitThreads /\ [][NextThreads]_vars

\* SpecConn: the life cycle of the connection; the frames are ones the
\* handlers do not act on
NextConn ==
    \/ Start
    \/ Stop
    \/ LoopTop
    \/ ConnectFail
    \/ ConnectOK
    \/ SubscribeOK
    \/ SubscribeFail
    \/ \E f \in OtherFrames : Receive(f)
    \/ LoopBreak
    \/ ConnectionLost
    \/ StreamEnds
    \/ AfterConnect
    \/ BackoffTop
    \/ SleepDone
    \/ BackoffAfterConnect

InitConn ==
    /\ InitClient
    /\ InitSim
    /\ InitCtl
    /\ max_queue_size = MaxQueue
    /\ max_vessels = MaxVessels
    /\ use_ship_type_fallback = FALSE
    /\ mmsi_filter = <<>>

SpecConn == InitConn /\ [][NextConn]_vars

\* SpecSim: the two simulators, ticked with every kind of argument
InitSimulators ==
    /\ InitClient
    /\ InitCtl
    /\ max_queue_size = MaxQueue
    /\ max_vessels = MaxVessels
    /\ use_ship_type_fallback = FALSE
    /\ mmsi_filter = <<>>
    /\ amm \in {InitAmmonia(n, i, FlatProfile) : n \in 0..MaxWaypoints, i \in UpdateIntervals}
    /\ smr \in {InitSMR(n, i, OpenSeaCorridor) : n \in 0..MaxWaypoints, i \in UpdateIntervals}

NextSim ==
    \/ \E d \in Opt(DeltaTimes), b \in BOOLEAN, u \in BlackoutDurations, x \in Distances :
          AmmoniaStep(d, b, u, x, 0)
    \/ \E d \in Opt(DeltaTimes), x \in Distances : SMRStep(d, x, 0, {})

SpecSim == InitSimulators /\ [][NextSim]_vars

\* SpecRange: the receive task fed with position reports of one allowlisted
\* identity whose fields carry the values AIS uses for "not available"
\* (latitude 91, longitude 181, course 360) and a negative speed
RangeLatitudes == {10, 91}
RangeLongitudes == {20, 181}
RangeCogs == {90, 360}
RangeSogs == {12, -5}

RangeFrames ==
    {[kind |-> "PositionReport", mmsi |-> "440326000",
      msg |-> MkDict(<<>>, <<la>>, <<lo>>, <<cg>>, <<sg>>)] :
        la \in RangeLatitudes, lo \in RangeLongitudes,
        cg \in RangeCogs, sg \in RangeSogs}

NextRange ==
    \/ \E f \in RangeFrames : Receive(f)
    \/ HandlerStep

SpecRange == InitThreads /\ [][NextRange]_vars

\* SpecScenario: a scenario controller of each profile and configuration,
\* called with every kind of argument
InitScenario ==
    /\ InitClient
    /\ max_queue_size = MaxQueue
    /\ max_vessels = MaxVessels
    /\ use_ship_type_fallback = FALSE
    /\ mmsi_filter = <<>>
    /\ InitSim
    /\ ctl \in {InitController(p, d, f, u) :
                  p \in LossProfiles, d \in Degradations,
                  f \in BOOLEAN, u \in CtlBlackoutDurations}

NextScenario ==
    \/ \E t \in Opt(CtlTimes), flip \in BOOLEAN, lose \in BOOLEAN :
          ProcessTransmission(t, flip, lose)
    \/ ResetStatistics
    \/ \E d \in Degradations : SetDegradation(d)

SpecScenario == InitScenario /\ [][NextScenario]_vars

\* SpecKinematics: the waypoint-route simulator alone, ticked forward with
\* targets in every direction and at every distance
KinDeltaTimes == {20}
TargetCourses == {0, 90, 190, 350}

InitKinematics ==
    /\ InitClient
    /\ max_queue_size = MaxQueue
    /\ max_vessels = MaxVessels
    /\ use_ship_type_fallback = FALSE
    /\ mmsi_filter = <<>>
    /\ InitCtl
    /\ amm \in {InitAmmonia(n, i, p) :
                  n \in 1..MaxWaypoints, i \in UpdateIntervals,
                  p \in {DefaultProfile, HarbourProfile}}
    /\ smr = InitSMR(2, 10, OpenSeaCorridor)

NextKinematics ==
    \E d \in Opt(KinDeltaTimes), x \in Distances, c \in TargetCourses :
        AmmoniaStep(d, FALSE, 0, x, c)

SpecKinematics == InitKinematics /\ [][NextKinematics]_vars

\* SpecBlackout: the waypoint-route simulator alone, ticked forward with
\* every draw of the blackout section
BlackoutTargetCourses == {0, 90}

InitBlackout ==
    /\ InitClient
    /\ max_queue_size = MaxQueue
    /\ max_vessels = MaxVessels
    /\ use_ship_type_fallback = FALSE
    /\ mmsi_filter = <<>>
    /\ InitCtl
    /\ amm \in {InitAmmonia(n, i, p) :
                  n \in 1..MaxWaypoints, i \in UpdateIntervals,
                  p \in {DefaultProfile, HarbourProfile}}
    /\ smr = InitSMR(2, 10, OpenSeaCorridor)

NextBlackout ==
    \E d \in Opt(KinDeltaTimes), b \in BOOLEAN, u \in BlackoutDurations,
       x \in Distances, c \in BlackoutTargetCourses :
        AmmoniaStep(d, b, u, x, c)

SpecBlackout == InitBlackout /\ [][NextBlackout]_vars

\* SpecRoute: both simulators ticked forwards and backwards along routes
\* of every length, towards targets at every distance
RouteDeltaTimes == {-10, 10}

InitRoute ==
    /\ InitClient
    /\ max_queue_size = MaxQueue
    /\ max_vessels = MaxVessels
    /\ use_ship_type_fallback = FALSE
    /\ mmsi_filter = <<>>
    /\ InitCtl
    /\ amm \in {InitAmmonia(n, i, FlatProfile) : n \in 1..MaxWaypoints, i \in UpdateIntervals}
    /\ smr \in {InitSMR(n, i, OpenSeaCorridor) : n \in 2..MaxWaypoints, i \in UpdateIntervals}

NextRoute ==
    \/ \E d \in Opt(RouteDeltaTimes), x \in Distances : AmmoniaStep(d, FALSE, 0, x, 0)
    \/ \E d \in Opt(RouteDeltaTimes), x \in Distances : SMRStep(d, x, 0, {})

SpecRoute == InitRoute /\ [][NextRoute]_vars

\* SpecCorridor: the corridor simulator alone, in a wide and in a narrow
\* corridor with geofence zones, ticked forward to positions at every
\* cross-track distance and in every combination of zones
Prohibited == [zone_type |-> "PROHIBITED", max_speed_knots |-> 0]
Restricted == [zone_type |-> "RESTRICTED", max_speed_knots |-> 15]

ZoneLists == {<<Prohibited, Restricted>>, <<Prohibited, Prohibited>>}

Corridors ==
    {[width_m |-> w, corridor_deviation_threshold_m |-> 2000, zones |-> z] :
        w \in {2000, 10000}, z \in ZoneLists}

\* cross-track distances of the new position, in metres
CrossTracks == {500, 3000, 6000}

CorridorDeltaTimes == {20}

InitCorridor ==
    /\ InitClient
    /\ max_queue_size = MaxQueue
    /\ max_vessels = MaxVessels
    /\ use_ship_type_fallback = FALSE
    /\ mmsi_filter = <<>>
    /\ InitCtl
    /\ amm = InitAmmonia(2, 10, FlatProfile)
    /\ smr \in {InitSMR(2, i, c) : i \in UpdateIntervals, c \in Corridors}

NextCorridor ==
    \E d \in Opt(CorridorDeltaTimes), x \in CrossTracks, z \in SUBSET {1, 2} :
        SMRStep(d, 6000, x, z)

SpecCorridor == InitCorridor /\ [][NextCorridor]_vars

(***************************************************************************)
(* Claims about the ingest path                                            *)
(***************************************************************************)

C2_DropHeadIsCounted ==
    /\ [][(pc = "enq_get" /\ pc' = "enq_put") =>
            /\ message_queue' = Tail(message_queue)
            /\ \/ stats'.messages_filtered = stats.messages_filtered + 1
               \/ stats'.parse_errors = stats.parse_errors + 1]_vars
    /\ [][(pc = "enq_put" /\ pc' = "callback") =>
            message_queue' = Append(message_queue,
                                    [ref |-> cur.mmsi, rep |-> stats.messages_received])]_vars

\* C3: once a message has been handled, no record of the vessel cache has
\* latitude = 0 and longitude = 0.
C3_NoNullIslandRecord ==
    pc = "recv" =>
        \A m \in DOMAIN vessel_cache :
            ~(vessel_cache[m].latitude = 0 /\ vessel_cache[m].longitude = 0)

\* C4: every record in the cache or the queue has an allowlisted identity or
\* was created by a message with a ship-type code in 70..89 while fallback
\* filtering was enabled; with fallback disabled a message for a
\* non-allowlisted identity neither creates nor changes a record.
C4_RecordAdmissible(m) ==
    /\ m \in DOMAIN vessel_cache
    /\ \/ m \in AUTONOMOUS_SHIP_MMSI_LIST
       \/ /\ vessel_cache[m].created_type >= 70
          /\ vessel_cache[m].created_type <= 89
          /\ use_ship_type_fallback

C4_OnlyAdmissibleRecords ==
    /\ [](/\ \A m \in DOMAIN vessel_cache : C4_RecordAdmissible(m)
          /\ \A i \in 1..Len(message_queue) : C4_RecordAdmissible(message_queue[i].ref)
          /\ cur.kind = "PositionReport" => C4_RecordAdmissible(cur.mmsi))
    /\ [][\A f \in Frames :
            (Receive(f) /\ ~use_ship_type_fallback
                        /\ f.mmsi \notin AUTONOMOUS_SHIP_MMSI_LIST)
            => UNCHANGED <<vessel_cache, message_queue, pc, cur>>]_vars

\* C4 witness: a record of a non-allowlisted identity, created through the
\* ship-type fallback, is in the cache and in the queue.
C4_FallbackRecordQueued ==
    \E i \in 1..Len(message_queue) :
        /\ message_queue[i].ref \notin AUTONOMOUS_SHIP_MMSI_LIST
        /\ message_queue[i].ref \in DOMAIN vessel_cache

\* C5: while the cache holds at least max_vessels records, a position-report
\* or static-data message for a non-autonomous identity is dropped without
\* creating or changing any record, and a message for an allowlisted
\* identity is still admitted.
C5_NonNull(f) ==
    LET old == IF f.mmsi \in DOMAIN vessel_cache
               THEN vessel_cache[f.mmsi] ELSE [latitude |-> 0, longitude |-> 0]
    IN  ~(Get(f.msg, "Latitude", old.latitude) = 0 /\
          Get(f.msg, "Longitude", old.longitude) = 0)

C5_CapacityDropsOnlyNonAutonomous ==
    [][\A f \in PositionReports \cup StaticData :
        (Receive(f) /\ Cardinality(DOMAIN vessel_cache) >= max_vessels) =>
            IF f.mmsi \notin AUTONOMOUS_SHIP_MMSI_LIST
            THEN UNCHANGED <<vessel_cache, message_queue, pc, cur>>
            ELSE /\ f.mmsi \in DOMAIN vessel_cache'
                 /\ f.kind = "ShipStaticData" => vessel_cache'[f.mmsi].has_static
                 /\ (f.kind = "PositionReport" /\ C5_NonNull(f)) =>
                        (pc' = "upd_lat" /\ cur' = f)]_vars

\* C5 witness: with the cache at capacity a non-autonomous message has been
\* dropped and an allowlisted identity has been admitted beyond the capacity.
C5_AutonomousBeyondCapacity ==
    /\ max_vessels > 0
    /\ Cardinality(DOMAIN vessel_cache) > max_vessels
    /\ stats.messages_filtered > 0
    /\ pc = "upd_lat"

\* C9: a reader of the store never observes a record that mixes fields of
\* two different reports.
C9_NoMixedRead ==
    rpc = "read_done" => robs.lat_rep = robs.lon_rep

(***************************************************************************)
(* Claims about the connection life cycle                                  *)
(***************************************************************************)

\* C6: Stopped is terminal: once stop has been called, in any state, the
\* client opens no further connection and never again reports
\* is_connected = true.
C6_StoppedIsTerminal ==
    hist.stopped => (~is_connected /\ pc # "subscribing")

\* C7 as stated: if every connection attempt fails, then after 10
\* consecutive failed connects the client makes no further attempt.
C7_NoAttemptAfterTenFailures ==
    (~hist.ever_connected /\ ~hist.stopped /\ hist.failed_connects >= 10)
        => pc \notin {"sleeping", "connecting"}

\* C7 as amended: if every connection attempt fails and stop is not called,
\* the client makes the initial attempt and max_reconnect_attempts = 10
\* retries; after the 11th consecutive failed connect it sets running = false
\* and makes no further connection attempt.
C7_StopsAfterElevenFailures ==
    (~hist.ever_connected /\ ~hist.stopped) =>
        /\ hist.failed_connects <= max_reconnect_attempts + 1
        /\ hist.failed_connects = max_reconnect_attempts + 1
              => pc \notin {"sleeping", "connecting"}
        /\ hist.failed_connects < max_reconnect_attempts + 1
              => (pc # "done" /\ (hist.started => running))
        /\ pc = "done" => (~running /\ reconnect_attempts = max_reconnect_attempts)

\* C7 witness: the budget is exhausted after eleven failed connects.
C7_BudgetExhausted ==
    /\ pc = "done"
    /\ ~running
    /\ ~hist.ever_connected
    /\ ~hist.stopped
    /\ hist.failed_connects = 11

\* C8: the reconnect counter changes only by +1 or by a reset to 0 made by a
\* successful subscribe, and every connection attempt that follows a lost or
\* failed connection is preceded by a wait of min(2^n, 60) seconds.
C8_BackoffDiscipline ==
    /\ [][reconnect_attempts' # reconnect_attempts =>
            \/ reconnect_attempts' = reconnect_attempts + 1
            \/ /\ reconnect_attempts' = 0
               /\ pc = "subscribing"
               /\ pc' = "recv"]_vars
    /\ []((pc = "connecting" /\ hist.prev_failed) =>
            hist.waited = Min(Pow2(reconnect_attempts), 60))

(***************************************************************************)
(* Claims about timestamps                                                 *)
(***************************************************************************)

\* C10: for every identity the timestamps of successive updates written to
\* its record never decrease, for AIS position reports and for simulator
\* ticks called with any delta_time_sec argument.
C10_TimestampsNeverDecrease ==
    [][/\ amm'.timestamp >= amm.timestamp
       /\ smr'.timestamp >= smr.timestamp
       /\ \A m \in DOMAIN vessel_cache :
            m \in DOMAIN vessel_cache' /\
            vessel_cache'[m].timestamp >= vessel_cache[m].timestamp]_vars

(***************************************************************************)
(* Claims about value ranges                                               *)
(***************************************************************************)

\* C11: every stored vessel record has lat in [-90, 90], lon in (-180, 180],
\* course in [0, 360) and speed >= 0, whatever values a position report
\* carries.
C11_StoredFieldsInRange ==
    \A m \in DOMAIN vessel_cache :
        /\ vessel_cache[m].latitude >= -90 /\ vessel_cache[m].latitude <= 90
        /\ vessel_cache[m].longitude > -180 /\ vessel_cache[m].longitude <= 180
        /\ vessel_cache[m].course >= 0 /\ vessel_cache[m].course < 360
        /\ vessel_cache[m].speed >= 0

(***************************************************************************)
(* Claims about the channel model                                          *)
(***************************************************************************)

\* C12: after any sequence of process_transmission and reset_statistics
\* calls, lost_packets <= total_packets, the reliability index lies in
\* [0, 100], and it equals 100*(total-lost)/total whenever total > 0.
C12_ReliabilityIndexSound ==
    LET sai == calculate_reliability_index(ctl)
    IN  /\ ctl.lost_packets <= ctl.total_packets
        /\ sai[2] > 0
        /\ 0 <= sai[1]
        /\ sai[1] <= 100 * sai[2]
        /\ ctl.total_packets > 0 =>
              sai[1] * ctl.total_packets =
                  100 * (ctl.total_packets - ctl.lost_packets) * sai[2]

\* C12 witness: statistics were reset after a call, and of the two calls
\* made since one was lost.
C12_LossAfterReset ==
    /\ ctl.calls = 3
    /\ ctl.total_packets = 2
    /\ ctl.lost_packets = 1

\* C13: a process_transmission call whose time lies before the end of the
\* forced-blackout window (a window already open, or the one the call opens)
\* fails with reason BLACKOUT and does not step the Gilbert-Elliott channel.
C13_BlackoutSkipsChannel ==
    [][(/\ ctl'.calls = ctl.calls + 1
        /\ \/ /\ ctl.in_blackout
              /\ ctl'.simulation_time < ctl.blackout_end_time[1]
           \/ /\ ~ctl.in_blackout
              /\ ctl.force_blackout
              /\ ctl.blackout_duration_sec > 0)
       => /\ ctl'.reason = "BLACKOUT"
          /\ ctl'.current_state = ctl.current_state
          /\ ctl'.ge_steps = ctl.ge_steps
          /\ ctl'.used_p_loss = ctl.used_p_loss]_vars

\* C13 witness: the second call inside one window has failed with BLACKOUT
\* and the channel has never been stepped.
C13_SecondCallInWindow ==
    /\ ctl.calls = 2
    /\ ctl.lost_packets = 2
    /\ ctl.blackout_events = 1
    /\ ctl.in_blackout
    /\ ctl.reason = "BLACKOUT"
    /\ ctl.ge_steps = 0

\* C14: the loss probability a transmission's channel step uses is
\* min(p_loss_good*(1+2d), 0.5) in state GOOD and min(p_loss_bad*(1+2d), 0.9)
\* in state BAD, so it never exceeds 0.5 resp. 0.9, and the base loss
\* probabilities are the same after the call as before it.
C14_ScaledLossCapped ==
    [][ctl'.ge_steps = ctl.ge_steps + 1 =>
        LET scale == 10 + 2 * ctl.degradation_level
            good == ctl.p_loss_good * scale
            bad == ctl.p_loss_bad * scale
        IN  /\ ctl'.current_state = "GOOD" =>
                 /\ ctl'.used_p_loss = (IF good < 5000 THEN good ELSE 5000)
                 /\ ctl'.used_p_loss <= 5000
            /\ ctl'.current_state = "BAD" =>
                 /\ ctl'.used_p_loss = (IF bad < 9000 THEN bad ELSE 9000)
                 /\ ctl'.used_p_loss <= 9000
            /\ ctl'.p_loss_good = ctl.p_loss_good
            /\ ctl'.p_loss_bad = ctl.p_loss_bad]_vars

\* C14 witness: a channel step in state GOOD has used the cap 0.5 because
\* the scaled probability was above it.
C14_CapApplied ==
    /\ ctl.ge_steps >= 1
    /\ ctl.current_state = "GOOD"
    /\ ctl.used_p_loss = 5000
    /\ ctl.p_loss_good * (10 + 2 * ctl.degradation_level) > 5000

(***************************************************************************)
(* Claims about the simulators                                             *)
(***************************************************************************)

\* C15: on every tick of the waypoint-route simulator with dt > 0, whatever
\* the target, the speed changes by at most 0.05*dt knots and the course by
\* at most 2*dt degrees along the shortest rotation.
C15_RateLimitsRespected ==
    [][amm'.simulation_time > amm.simulation_time =>
        LET dt == amm'.simulation_time - amm.simulation_time
            turn == (amm'.course - amm.course) % 360
            shortest == IF turn > 180 THEN 360 - turn ELSE turn
        IN  /\ amm'.speed - amm.speed <= 5 * dt
            /\ amm.speed - amm'.speed <= 5 * dt
            /\ shortest <= 2 * dt]_vars

\* C15 witness: a tick has changed the speed by exactly the limit and turned
\* the vessel by exactly the limit, short of its target.
C15_BothLimitsHit ==
    /\ amm.simulation_time = 10
    /\ amm.speed = amm.cruise_speed_knots - 50
    /\ amm.course = (DefaultProfile.bearing + 20) % 360

\* C16: a waypoint-route simulator over fewer than two waypoints, or a
\* corridor simulator over fewer than two centreline points, is never
\* constructed: every simulator that exists has at least two.
C16_ShortRouteRejected ==
    /\ amm.constructed => amm.route_len >= 2
    /\ smr.constructed => smr.centerline_len >= 2

\* C17: after each corridor-simulator tick whose new position is farther from
\* the centreline than the deviation threshold, a CORRIDOR_DEVIATION event of
\* severity CRITICAL has been appended to the log, whatever the corridor's
\* width.
C17_DeviationLogged ==
    [][(/\ smr'.simulation_time # smr.simulation_time
        /\ smr'.last_xt > smr.corridor_deviation_threshold_m)
       => \E i \in (Len(smr.violation_log) + 1)..Len(smr'.violation_log) :
             /\ smr'.violation_log[i].event_type = "CORRIDOR_DEVIATION"
             /\ smr'.violation_log[i].severity = "CRITICAL"]_vars

\* C18: a tick logs exactly one CORRIDOR_DEVIATION when the cross-track
\* distance has crossed the threshold outward since the last tick, and none
\* otherwise (none while the vessel stays beyond the threshold).
C18_OnePerOutwardCrossing ==
    [][smr'.simulation_time # smr.simulation_time =>
        CountEvents(SubSeq(smr'.violation_log, Len(smr.violation_log) + 1,
                           Len(smr'.violation_log)), "CORRIDOR_DEVIATION")
          = (IF /\ smr.last_xt <= smr.corridor_deviation_threshold_m
                /\ smr'.last_xt > smr.corridor_deviation_threshold_m
             THEN 1 ELSE 0)]_vars

C20_MalformedFrameCounted ==
    [][\A f \in Frames :
         (f.kind \in {"BadJSON", "NotObject", "BadEnvelope"} /\ Receive(f)) =>
            /\ stats'.parse_errors = stats.parse_errors + 1
            /\ vessel_cache' = vessel_cache
            /\ message_queue' = message_queue
            /\ pc' = "recv"
            /\ is_connected' = is_connected
            /\ running' = running]_vars

\* C21: the target speed of the waypoint-route simulator is the cruise speed
\* at 5000 m or more from the waypoint; nearer, it is the linear
\* interpolation between the cruise speed and the waypoint's arrival speed
\* (taken in either direction), floored by the configured min-speed.
C21_SpeedProfile ==
    \A x \in Distances :
        LET target == TargetSpeed(amm, x)
            cruise == amm.cruise_speed_knots
            arrival == amm.arrival_speed_knots
            floor == amm.min_speed_knots * 5000
            \* 5000 times the interpolated speed, arrival speed at the waypoint
            inward == arrival * 5000 + (cruise - arrival) * x
            \* 5000 times the interpolated speed, cruise speed at the waypoint
            outward == cruise * 5000 + (arrival - cruise) * x
        IN  /\ x >= 5000 => target = cruise
            /\ x < 5000 =>
                 /\ target >= amm.min_speed_knots
                 /\ \/ target * 5000 = (IF inward < floor THEN floor ELSE inward)
                    \/ target * 5000 = (IF outward < floor THEN floor ELSE outward)

(***************************************************************************)
(* Claims about admission and publication                                  *)
(***************************************************************************)

\* C22: with a non-empty mmsi_filter only identities of that list are
\* admitted to the cache and to the queue; with mmsi_filter None the
\* built-in allowlist decides.
C22_FilterListDecides ==
    /\ mmsi_filter # <<>> =>
          /\ \A m \in DOMAIN vessel_cache : m \in mmsi_filter[1]
          /\ \A i \in 1..Len(message_queue) : message_queue[i].ref \in mmsi_filter[1]
    /\ (mmsi_filter = <<>> /\ ~use_ship_type_fallback) =>
          \A m \in DOMAIN vessel_cache : m \in AUTONOMOUS_SHIP_MMSI_LIST

\* C23: the message callback of an admitted position report runs before the
\* record is put on the queue: when the receive path is about to invoke the
\* callback, the queue holds no entry of that report.
C23_CallbackBeforeEnqueue ==
    pc = "callback" =>
        \A i \in 1..Len(message_queue) : message_queue[i].rep # CurRep

\* C24: an entry on the queue, and a record handed out to a reader, keeps the
\* position it had: no step changes the latitude or longitude seen through an
\* entry that stays on the queue, or through a record a reader still holds.
C24_PublishedStateIsFrozen ==
    [][ /\ \A i \in 1..Len(message_queue) : \A j \in 1..Len(message_queue') :
            message_queue'[j] = message_queue[i] =>
                LET m == message_queue[i].ref
                IN  /\ vessel_cache'[m].latitude = vessel_cache[m].latitude
                    /\ vessel_cache'[m].longitude = vessel_cache[m].longitude
        /\ (rpc # "idle" /\ rpc' # "idle") =>
                /\ vessel_cache'[rref].latitude = vessel_cache[rref].latitude
                /\ vessel_cache'[rref].longitude = vessel_cache[rref].longitude
      ]_vars

\* C27: a position report for a non-autonomous identity that is already in
\* the cache goes on to the update only if the report itself carries a
\* ship-type code in 70..89, the fallback is enabled and the cache holds
\* fewer than max_vessels records; any other such report is counted as
\* filtered and leaves the cache, the queue and the handler where they were.
C27_AdmissionIsPerMessage ==
    [][\A f \in PositionReports :
        (/\ Receive(f)
         /\ f.mmsi \notin AUTONOMOUS_SHIP_MMSI_LIST
         /\ f.mmsi \in DOMAIN vessel_cache) =>
            LET passes == /\ Get(f.msg, "Type", 0) \in 70..89
                          /\ use_ship_type_fallback
                          /\ Cardinality(DOMAIN vessel_cache) < max_vessels
            IN  /\ pc' = "upd_lat" => passes
                /\ ~passes =>
                      /\ stats'.messages_filtered = stats.messages_filtered + 1
                      /\ UNCHANGED <<vessel_cache, message_queue, pc, cur>>]_vars

\* C27 witness: with max_vessels = 1 the first report created and updated
\* the record of a non-autonomous identity, and the second report, for the
\* same identity, was dropped and counted as filtered.
C27_CachedIdentityDropped ==
    /\ max_vessels = 1
    /\ DOMAIN vessel_cache = {"123456789"}
    /\ vessel_cache["123456789"].lat_rep = 1
    /\ ~vessel_cache["123456789"].has_static
    /\ pc = "recv"
    /\ stats.messages_received = 2
    /\ stats.messages_filtered = 1
    /\ stats.parse_errors = 0

\* C28: the cache never holds more than max_vessels records of identities
\* outside the allowlist, never more than max_vessels plus the size of the
\* allowlist in total, and no step removes a record from it.
C28_CacheBounded ==
    /\ [](/\ Cardinality(DOMAIN vessel_cache \ AUTONOMOUS_SHIP_MMSI_LIST) <= max_vessels
          /\ Cardinality(DOMAIN vessel_cache) <=
                max_vessels + Cardinality(AUTONOMOUS_SHIP_MMSI_LIST))
    /\ [][DOMAIN vessel_cache \subseteq DOMAIN vessel_cache']_vars

\* C28 witness: with max_vessels = 1 the cache holds one non-autonomous
\* record and an allowlisted one, and a further message has been received.
C28_CacheAtItsBound ==
    /\ max_vessels = 1
    /\ DOMAIN vessel_cache = {"123456789", "440326000"}
    /\ stats.messages_received = 3
    /\ pc = "recv"

\* C29: with force_blackout set, in every call of process_transmission:
\* a call at or after the end of the open window closes it, opens no other
\* and goes through the Gilbert-Elliott channel; a call inside the open
\* window is a BLACKOUT; a call that finds no window open opens one and
\* adds one to blackout_events; and a call is not a BLACKOUT exactly when it
\* leaves no window open.  So each window has one transmission that is not a
\* BLACKOUT, its closing one, and the next transmission opens the next window.
C29_ForcedWindowsRepeat ==
    [][(ctl.force_blackout /\ ctl'.calls = ctl.calls + 1) =>
        /\ (ctl.in_blackout /\ ctl'.simulation_time >= ctl.blackout_end_time[1]) =>
              /\ ~ctl'.in_blackout
              /\ ctl'.ge_steps = ctl.ge_steps + 1
              /\ ctl'.reason # "BLACKOUT"
              /\ ctl'.blackout_events = ctl.blackout_events
        /\ (ctl.in_blackout /\ ctl'.simulation_time < ctl.blackout_end_time[1]) =>
              /\ ctl'.reason = "BLACKOUT"
              /\ ctl'.ge_steps = ctl.ge_steps
              /\ ctl'.blackout_events = ctl.blackout_events
        /\ ~ctl.in_blackout =>
              /\ ctl'.blackout_events = ctl.blackout_events + 1
              /\ ctl.blackout_duration_sec > 0 =>
                    /\ ctl'.in_blackout
                    /\ ctl'.reason = "BLACKOUT"
                    /\ ctl'.blackout_start_time = <<ctl'.simulation_time>>
                    /\ ctl'.blackout_end_time =
                          <<ctl'.simulation_time + ctl.blackout_duration_sec>>
        /\ (ctl'.reason # "BLACKOUT") <=> ~ctl'.in_blackout]_vars

\* C29 witness: with force_blackout set and 20 s windows, three calls have
\* opened a window, closed it through the channel and opened the next one.
C29_SecondWindowOpened ==
    /\ ctl.force_blackout
    /\ ctl.blackout_duration_sec = 20
    /\ ctl.calls = 3
    /\ ctl.total_packets = 3
    /\ ctl.blackout_events = 2
    /\ ctl.total_blackout_duration_sec = 20
    /\ ctl.ge_steps = 1
    /\ ctl.in_blackout
    /\ ctl.reason = "BLACKOUT"

\* C30: the enqueue of an admitted report never blocks the receive task:
\* whenever the task is at the removal of the oldest entry there is an
\* entry to remove, and whenever it is at the put the queue has room.
C30_EnqueueNeverBlocks ==
    /\ pc = "enq_get" => message_queue # <<>>
    /\ pc = "enq_put" => ~QueueFull(message_queue)

(***************************************************************************)
(* Claims about the simulators' routes and blackouts                       *)
(***************************************************************************)

\* C25: after any sequence of ticks the waypoint-route simulator has the
\* course, speed, timestamp, clock and waypoint index of the same simulator
\* ticked with the same arguments and no blackout; only the blackout flag and
\* times may differ.
C25_BlackoutDoesNotSteer ==
    \A k \in {"course", "speed", "timestamp", "simulation_time", "current_waypoint_idx"} :
        amm[k] = amm.twin[k]

\* C25 witness: a blackout has been active over a tick in which the speed
\* and the course changed, and the simulator without blackouts is not in one.
C25_SteeredInBlackout ==
    /\ amm.in_blackout
    /\ ~amm.twin.in_blackout
    /\ amm.simulation_time > amm.blackout_start_time
    /\ amm.speed # amm.cruise_speed_knots
    /\ amm.course # 90
    /\ amm.current_waypoint_idx # 1

\* C26: in both simulators the index that selects the target of a tick is a
\* valid position of the route; a stored index that has reached the length
\* of the route selects position 0 in the next tick; and a tick leaves the
\* index at the position it selected or one further.
C26_RoutesAreCyclic ==
    /\ [](/\ TargetIndex(amm.current_waypoint_idx, amm.route_len) \in 0..(amm.route_len - 1)
          /\ TargetIndex(smr.current_centerline_index, smr.centerline_len)
                \in 0..(smr.centerline_len - 1)
          /\ amm.current_waypoint_idx = amm.route_len =>
                TargetIndex(amm.current_waypoint_idx, amm.route_len) = 0
          /\ smr.current_centerline_index = smr.centerline_len =>
                TargetIndex(smr.current_centerline_index, smr.centerline_len) = 0)
    /\ [][/\ amm' # amm =>
                amm'.current_waypoint_idx -
                    TargetIndex(amm.current_waypoint_idx, amm.route_len) \in {0, 1}
          /\ smr' # smr =>
                smr'.current_centerline_index -
                    TargetIndex(smr.current_centerline_index, smr.centerline_len) \in {0, 1}
         ]_vars

\* C26 witness: both simulators have run off the end of a three-point route
\* and have been wrapped to its first position.
C26_BothWrapped ==
    /\ amm.route_len = 3
    /\ amm.current_waypoint_idx = 0
    /\ smr.centerline_len = 3
    /\ smr.current_centerline_index = 0

====
